---- MODULE Spec2Model ----
(***************************************************************************)
(* WebSocket gateway of go-cqhttp (package server): the forward server     *)
(* (webSocketServer), the reverse client (websocketClient) and the         *)
(* connection wrapper (wsConn) they share.                                 *)
(*                                                                         *)
(* One behaviour models one configured gateway: runWSServer and            *)
(* runWSClient each return at once when their node is disabled, and the    *)
(* two gateways share no state (each has its own lock, its own             *)
(* connections), so Init chooses which of the two is enabled.              *)
(*                                                                         *)
(* A socket is modelled by two flags: closed (Close was called on it       *)
(* locally) and broken (a write on it has failed, and the websocket.Conn   *)
(* keeps that error for every later write).  A write fails when one of the *)
(* two is set, or when the peer or the network goes away at that write;    *)
(* both flags are sticky.  A blocking read may fail at any time (the peer  *)
(* disconnects).                                                           *)
(***************************************************************************)
EXTENDS Integers, Sequences, FiniteSets, TLC

\* ------------------------------------------------------------------ bounds
\* What the environment feeds the gateway in one behaviour: connections
\* (requests that arrive, dials that succeed), command frames and events,
\* MaxOps of them in all.
MaxOps == 4

ConnIds == 1..MaxOps
CmdIds == 1..MaxOps
EventIds == 1..MaxOps

\* ------------------------------------------------------------------ tasks
NoTask == <<"none", 0>>
EvTask(e) == <<"ev", e>>
CmdTask(k) == <<"cmd", k>>
MainTask == <<"main", 0>>
RcTask(c) == <<"rc", c>>

NoConn == 0

\* rate-limit.bucket of the configuration, and the limiter the reverse client
\* creates once and installs on every connection it wraps (lines 124-126,
\* 173-175); the server creates one per /api and / connection (lines 284-286,
\* 313-315).
Bucket == 1
SharedLimiter == 0
Limiters == {SharedLimiter} \cup ConnIds

\* ------------------------------------------------------------- JSON values
\* An echo value of a command frame: absent, a string, a number or an object
\* with one numeric member.  A number is hi * Base + lo, 0 <= lo < Base.
Base == 2 ^ 27
MantissaBits == 53
Pow53Hi == 2 ^ (MantissaBits - 27)

NoEcho == [kind |-> "absent", str |-> "", hi |-> 0, lo |-> 0]
StrEcho == [kind |-> "string", str |-> "x1", hi |-> 0, lo |-> 0]
NumEcho(h, l) == [kind |-> "number", str |-> "", hi |-> h, lo |-> l]
ObjEcho(key, h, l) == [kind |-> "object", str |-> key, hi |-> h, lo |-> l]

\* strconv.ParseFloat followed by encoding/json's float64 output, on a
\* non-negative integer below 2^54: exact below 2^53, and from 2^53 on rounded
\* to the nearest even multiple (ties to the even mantissa).
Float64(n) ==
    IF n.hi < Pow53Hi \/ n.lo % 2 = 0 THEN n
    ELSE IF (n.lo - 1) % 4 = 0 THEN [n EXCEPT !.lo = n.lo - 1]
    ELSE IF n.lo + 1 = Base THEN [n EXCEPT !.hi = n.hi + 1, !.lo = 0]
    ELSE [n EXCEPT !.lo = n.lo + 1]

\* gjson Result.Exists
Exists(echo) == echo.kind # "absent"

\* gjson Result.Value: a string as it is, a number as a float64, an object as
\* a map whose members are converted the same way.
Value(echo) ==
    IF echo.kind \in {"number", "object"} THEN Float64(echo) ELSE echo

\* The echo of the response handleRequest builds (lines 356-359): the result of
\* Call carries no echo; one is set when the command has one.
ResponseEcho(echo) == IF Exists(echo) THEN Value(echo) ELSE NoEcho

EchoInputs ==
    { NoEcho, StrEcho, NumEcho(0, 42), NumEcho(Pow53Hi, 1),
      ObjEcho("id", Pow53Hi, 3) }

CmdEchoes == {StrEcho}

\* --------------------------------------------------------------- variables
VARIABLES
    conf,       \* the configuration node that was decoded
    nconn,      \* connection ids handed out so far
    ep,         \* c -> endpoint (server) or role (client) the connection was made on
    tokOK,      \* c -> whether the request passed checkAuth
    hpc,        \* c -> where the connection's handler / reader task stands
    hsOK,       \* c -> whether the handshake write succeeded
    closed,     \* c -> Close was called on the socket
    broken,     \* c -> a write on the socket has failed
    wmu,        \* c -> task holding wsConn.mu
    inflight,   \* c -> tasks inside a frame write on the socket
    wire,       \* c -> frames that reached the peer, in order
    eventConn,  \* webSocketServer.eventConn
    smu,        \* task holding webSocketServer.mu
    ncmd,       \* command frames read so far
    cpc,        \* k -> where the command's handleRequest task stands
    cconn,      \* k -> connection the command was read from
    cecho,      \* k -> the command's echo value
    cresp,      \* k -> echo of the response built for it
    cdisp,      \* k -> "called": Call reached the bot API; "rejected": the limiter refused
    tokens,     \* limiter -> tokens left in its bucket
    nev,        \* events pushed so far
    epc,        \* e -> where the event's onBotPushEvent call stands
    erej,       \* e -> the filter rejected the event
    ei,         \* e -> loop index i
    ej,         \* e -> compaction index j
    epre,       \* e -> eventConn when the pass took the lock
    eatt,       \* e -> connections the pass attempted a write on, in order
    eok,        \* e -> connections whose event write succeeded
    epost,      \* e -> eventConn when the pass released the lock
    cmu,        \* task holding websocketClient.mu
    slot,       \* role -> websocketClient.universal / .event (NoConn: nil)
    mpc,        \* where runWSClient stands
    subscribed, \* the role whose onBotPushEvent closure the bot calls
    dl,         \* task -> where its call of websocketClient.connect stands
    dlast       \* role -> outcome of the role's last dial

srvVars == <<eventConn, smu>>
connVars == <<nconn, ep, tokOK, hpc, hsOK, closed, broken, wmu, inflight, wire>>
cmdVars == <<ncmd, cpc, cconn, cecho, cresp, cdisp, tokens>>
evVars == <<nev, epc, erej, ei, ej, epre, eatt, eok, epost>>
cliVars == <<cmu, slot, mpc, subscribed, dl, dlast>>
vars == <<conf, srvVars, connVars, cmdVars, evVars, cliVars>>

\* ----------------------------------------------------------- configuration
\* config.WebsocketReverse as runWSClient reads it: the reconnect interval
\* (0: no reconnection), whether rate limiting is enabled and which of the
\* three URLs are set.  With the Universal URL set, the other two are both
\* set or both empty.
ClientConfs ==
    { cf \in [gateway : {"client"}, interval : {0, 1}, limit : BOOLEAN,
              universal : BOOLEAN, api : BOOLEAN, event : BOOLEAN] :
        cf.universal => cf.api = cf.event }

ServerConfs ==
    [gateway : {"server"}, interval : {0}, limit : BOOLEAN,
     universal : {FALSE}, api : {FALSE}, event : {FALSE}]

Confs == ServerConfs \cup ClientConfs

IsServer == conf.gateway = "server"
IsClient == conf.gateway = "client"

Roles == {"Universal", "API", "Event"}
SlotRoles == {"Universal", "Event"}

\* The tasks that may run websocketClient.connect.
Dialers ==
    {MainTask} \cup {EvTask(e) : e \in EventIds} \cup {RcTask(c) : c \in ConnIds}

Idle == [st |-> "idle", typ |-> "none"]
Dialing(typ) == [st |-> "dial", typ |-> typ]
Sleeping(typ) == [st |-> "sleep", typ |-> typ]

\* runWSClient lines 128-139: the role connected first, and the one connected
\* after a role's connect has returned ("done": runWSClient returns).
FirstRole(cf) ==
    IF cf.universal THEN "Universal"
    ELSE IF cf.api THEN "API"
    ELSE IF cf.event THEN "Event"
    ELSE "done"

RoleAfter_NoReturn(typ, cf) ==
    IF typ = "Universal" /\ cf.api THEN "API"
    ELSE IF typ \in {"Universal", "API"} /\ cf.event THEN "Event"
    ELSE "done"

RoleAfter(typ, cf) ==
    IF typ = "API" /\ cf.event THEN "Event" ELSE "done"

\* The roles runWSClient connects under a configuration (lines 128-139).
ConfiguredRoles(cf) ==
    IF cf.universal THEN {"Universal"}
    ELSE {r \in {"API"} : cf.api} \cup {r \in {"Event"} : cf.event}

\* The environment has inputs left.
HasBudget == nconn + ncmd + nev < MaxOps

\* ------------------------------------------------------------------ socket
\* websocket.Conn read / write outcome.
Usable(c) == ~closed[c] /\ ~broken[c]

\* ---------------------------------------------------------------- frames
HandshakeFrame == <<"handshake", 0, NoEcho>>
EventFrame(e) == <<"event", e, NoEcho>>
ResponseFrame(k, echo) == <<"response", k, echo>>

\* -------------------------------------------------------------------- Init
Init ==
    /\ conf \in Confs
    /\ nconn = 0
    /\ ep = [c \in ConnIds |-> "none"]
    /\ tokOK = [c \in ConnIds |-> FALSE]
    /\ hpc = [c \in ConnIds |-> "free"]
    /\ hsOK = [c \in ConnIds |-> FALSE]
    /\ closed = [c \in ConnIds |-> FALSE]
    /\ broken = [c \in ConnIds |-> FALSE]
    /\ wmu = [c \in ConnIds |-> NoTask]
    /\ inflight = [c \in ConnIds |-> {}]
    /\ wire = [c \in ConnIds |-> <<>>]
    /\ eventConn = <<>>
    /\ smu = NoTask
    /\ ncmd = 0
    /\ cpc = [k \in CmdIds |-> "free"]
    /\ cconn = [k \in CmdIds |-> NoConn]
    /\ cecho = [k \in CmdIds |-> NoEcho]
    /\ cresp = [k \in CmdIds |-> NoEcho]
    /\ cdisp = [k \in CmdIds |-> "none"]
    /\ tokens = [l \in Limiters |-> Bucket]
    /\ nev = 0
    /\ epc = [e \in EventIds |-> "free"]
    /\ erej = [e \in EventIds |-> FALSE]
    /\ ei = [e \in EventIds |-> 0]
    /\ ej = [e \in EventIds |-> 0]
    /\ epre = [e \in EventIds |-> <<>>]
    /\ eatt = [e \in EventIds |-> <<>>]
    /\ eok = [e \in EventIds |-> {}]
    /\ epost = [e \in EventIds |-> <<>>]
    /\ cmu = NoTask
    /\ slot = [r \in SlotRoles |-> NoConn]
    /\ mpc = IF IsClient THEN FirstRole(conf) ELSE "done"
    /\ subscribed = "none"
    /\ dl = [t \in Dialers |->
               IF t = MainTask /\ IsClient /\ FirstRole(conf) # "done"
               THEN Dialing(FirstRole(conf)) ELSE Idle]
    /\ dlast = [r \in Roles |-> "none"]

\* ---------------------------------------------------------- forward server
\* Where a handler stands once it is past the part that touches nothing
\* shared: checkAuth (lines 241-246), Upgrade (lines 248-252) and, on /event
\* and /, the handshake write (lines 254-259, 304-309).  /api writes no
\* handshake and goes on to listenAPI (line 287).
AfterUpgrade_NoAuth(endpoint, authorized, upgraded, hsWritten) ==
    IF ~upgraded THEN "upfail"
    ELSE IF endpoint = "api" THEN "read"
    ELSE IF ~hsWritten THEN "done"
    ELSE "register"

\* The endpoints whose handler writes a handshake.
ServerShakes(endpoint) == endpoint # "api"

AfterUpgrade(endpoint, authorized, upgraded, hsWritten) ==
    IF ~authorized THEN "rejected"
    ELSE IF ~upgraded THEN "upfail"
    ELSE IF ~ServerShakes(endpoint) THEN "read"
    ELSE IF ~hsWritten THEN "done"
    ELSE "register"

\* webSocketServer.event / api / any up to the registration: a request
\* arrives on an endpoint; hsWritten is the outcome of the handshake write.
Accept(endpoint, authorized, upgraded, hsWritten) ==
    /\ IsServer
    /\ HasBudget
    /\ LET c == nconn + 1
           to == AfterUpgrade(endpoint, authorized, upgraded, hsWritten)
           shakes == authorized /\ upgraded /\ ServerShakes(endpoint)
       IN /\ nconn' = c
          /\ ep' = [ep EXCEPT ![c] = IF authorized /\ upgraded THEN endpoint ELSE "none"]
          /\ tokOK' = [tokOK EXCEPT ![c] = authorized]
          /\ hpc' = [hpc EXCEPT ![c] = to]
          /\ hsOK' = [hsOK EXCEPT ![c] = shakes /\ hsWritten]
          /\ wire' = [wire EXCEPT ![c] =
                 IF shakes /\ hsWritten THEN <<HandshakeFrame>> ELSE <<>>]
          /\ broken' = [broken EXCEPT ![c] = shakes /\ ~hsWritten]
          /\ closed' = [closed EXCEPT ![c] = shakes /\ ~hsWritten]
    /\ UNCHANGED <<conf, srvVars, wmu, inflight, cmdVars, evVars, cliVars>>

\* Registration under s.mu (lines 262-265, 312-318); event returns, any goes
\* on to listenAPI.
Register(c) ==
    /\ IsServer
    /\ hpc[c] = "register"
    /\ smu = NoTask
    /\ eventConn' = Append(eventConn, c)
    /\ hpc' = [hpc EXCEPT ![c] = IF ep[c] = "any" THEN "read" ELSE "done"]
    /\ UNCHANGED <<conf, smu, nconn, ep, tokOK, hsOK, closed, broken, wmu,
                   inflight, wire, cmdVars, evVars, cliVars>>

\* -------------------------------------------------------- reader loops
\* listenAPI (server lines 322-344, client lines 186-208): a text frame is read
\* and handed to a new handleRequest task.
ReadCommand(c, echo) ==
    /\ hpc[c] = "read"
    /\ Usable(c)
    /\ HasBudget
    /\ LET k == ncmd + 1
       IN /\ ncmd' = k
          /\ cpc' = [cpc EXCEPT ![k] = "call"]
          /\ cconn' = [cconn EXCEPT ![k] = c]
          /\ cecho' = [cecho EXCEPT ![k] = echo]
    /\ UNCHANGED <<conf, srvVars, connVars, cresp, cdisp, tokens, evVars, cliVars>>

\* webSocketServer.listenAPI: NextReader or ReadFrom fails (the peer went
\* away, or the socket was closed), the loop breaks and the deferred Close
\* runs (lines 323, 326-333).
ServerReadFail(c) ==
    /\ IsServer
    /\ hpc[c] = "read"
    /\ closed' = [closed EXCEPT ![c] = TRUE]
    /\ hpc' = [hpc EXCEPT ![c] = "done"]
    /\ UNCHANGED <<conf, srvVars, nconn, ep, tokOK, hsOK, broken, wmu, inflight,
                   wire, cmdVars, evVars, cliVars>>

\* ------------------------------------------------------------ rate limiter
\* The limiter of the connection's apiCaller.
LimiterOf(c) == IF IsServer THEN c ELSE SharedLimiter

\* The token-bucket interceptor: a request within the budget passes and
\* takes a token; one over the budget is delayed until the bucket is
\* refilled, or rejected, per policy.
Verdict(limited, left, rejects) ==
    IF ~limited \/ left > 0 THEN "pass"
    ELSE IF rejects THEN "reject"
    ELSE "delay"

Taken(limited, verdict, left) ==
    IF limited /\ verdict = "pass" THEN left - 1 ELSE left

Refilled(left) == IF left < Bucket THEN left + 1 ELSE left

\* ------------------------------------------------------- wsConn.handleRequest
\* Lines 353-359: the command is parsed, Call returns and the echo is copied;
\* or Call panics, the deferred recover closes the connection (lines 347-352).
Recovered_All(cl, c) == [x \in ConnIds |-> TRUE]

\* The deferred recover of handleRequest (lines 347-352): the fault ends the
\* command's task and Close is called on the task's own connection.
Recovered(cl, c) == [cl EXCEPT ![c] = TRUE]

\* The limiter steps in before the bot API (api.Caller.Call runs the
\* handlers installed by Use first).
CallAPI(k, panics, rejects) ==
    /\ cpc[k] = "call"
    /\ LET c == cconn[k]
           l == LimiterOf(c)
           v == Verdict(conf.limit, tokens[l], rejects)
       IN /\ v # "delay"
          /\ tokens' = [tokens EXCEPT ![l] = Taken(conf.limit, v, @)]
          /\ cdisp' = [cdisp EXCEPT ![k] = IF v = "pass" THEN "called" ELSE "rejected"]
          /\ IF v = "pass" /\ panics
             THEN /\ closed' = Recovered(closed, c)
                  /\ cpc' = [cpc EXCEPT ![k] = "done"]
                  /\ UNCHANGED cresp
             ELSE /\ cresp' = [cresp EXCEPT ![k] = ResponseEcho(cecho[k])]
                  /\ cpc' = [cpc EXCEPT ![k] = "lock"]
                  /\ UNCHANGED closed
    /\ UNCHANGED <<conf, srvVars, nconn, ep, tokOK, hpc, hsOK, broken, wmu,
                   inflight, wire, ncmd, cconn, cecho, evVars, cliVars>>

\* Time passes and the limiter's bucket gains a token.
Refill(l) ==
    /\ conf.limit
    /\ tokens[l] < Bucket
    /\ tokens' = [tokens EXCEPT ![l] = Refilled(@)]
    /\ UNCHANGED <<conf, srvVars, connVars, ncmd, cpc, cconn, cecho, cresp,
                   cdisp, evVars, cliVars>>

MayLock_NoMutex(c, t) == TRUE

\* Whether task t may take wsConn.mu of c (sync.Mutex.Lock returns).
MayLock(c, t) == wmu[c] = NoTask

Unlocked_Never(holder, t) == holder

\* The deferred c.mu.Unlock of the task that holds the lock (lines 60, 362).
Unlocked(holder, t) == IF holder = t THEN NoTask ELSE holder

\* A task enters a frame write on c holding c.mu.
WriteBegin(c, t) ==
    /\ MayLock(c, t)
    /\ wmu' = [wmu EXCEPT ![c] = t]
    /\ inflight' = [inflight EXCEPT ![c] = @ \cup {t}]

\* The frame write of task t on c returns and c.mu is released.  The write
\* fails when the socket is closed or broken already, or breaks now.
WriteEnd(c, t, frame, breaks) ==
    /\ wire' = [wire EXCEPT ![c] =
           IF Usable(c) /\ ~breaks THEN Append(@, frame) ELSE @]
    /\ broken' = [broken EXCEPT ![c] = ~(Usable(c) /\ ~breaks)]
    /\ inflight' = [inflight EXCEPT ![c] = @ \ {t}]
    /\ wmu' = [wmu EXCEPT ![c] = Unlocked(@, t)]

\* Lines 361-363: c.mu.Lock, NextWriter.
ResponseBegin(k) ==
    /\ cpc[k] = "lock"
    /\ WriteBegin(cconn[k], CmdTask(k))
    /\ cpc' = [cpc EXCEPT ![k] = "write"]
    /\ UNCHANGED <<conf, srvVars, nconn, ep, tokOK, hpc, hsOK, closed, broken,
                   wire, ncmd, cconn, cecho, cresp, cdisp, tokens, evVars, cliVars>>

\* Line 363: NextWriter returns no writer (and an error that is dropped) on
\* a socket whose earlier write failed.
NilWriter(c) == broken[c]

\* Lines 364-365 and the deferred Unlock: the response is encoded and the
\* writer closed, errors ignored.  Encoding to a nil writer faults; the
\* deferred recover closes the connection (lines 347-352).
ResponseEnd(k, breaks) ==
    /\ cpc[k] = "write"
    /\ WriteEnd(cconn[k], CmdTask(k), ResponseFrame(k, cresp[k]), breaks)
    /\ closed' = IF NilWriter(cconn[k]) THEN Recovered(closed, cconn[k]) ELSE closed
    /\ cpc' = [cpc EXCEPT ![k] = "done"]
    /\ UNCHANGED <<conf, srvVars, nconn, ep, tokOK, hpc, hsOK,
                   ncmd, cconn, cecho, cresp, cdisp, tokens, evVars, cliVars>>

\* ----------------------------------------- webSocketServer.onBotPushEvent
\* The bot pushes an event; the filter is evaluated first (lines 369-373):
\* the event is dropped when a filter is found and its Eval is false.
\* Lines 369-375: a rejected event returns, any other goes on to s.mu.Lock.
AfterPush(rejected) == IF rejected THEN "filtered" ELSE "lock"

ServerPush(rejected) ==
    /\ IsServer
    /\ HasBudget
    /\ LET e == nev + 1
       IN /\ nev' = e
          /\ erej' = [erej EXCEPT ![e] = rejected]
          /\ epc' = [epc EXCEPT ![e] = AfterPush(rejected)]
    /\ UNCHANGED <<conf, srvVars, connVars, cmdVars, ei, ej, epre, eatt, eok, epost, cliVars>>

Truncated_Short(seq, j) == SubSeq(seq, 1, j - 1)

\* s.eventConn[:j] (line 394).
Truncated(seq, j) == SubSeq(seq, 1, j)

\* The loop condition of line 379.
LoopGoesOn(i, seq) == i < Len(seq)

\* The pass of event e stands at index i with j survivors and s.eventConn =
\* seq: it goes on with the next connection, or the loop is over, the
\* sequence is cut to the survivors and the deferred Unlock releases s.mu
\* (lines 379, 394, 376).
PassStep(e, i, j, seq) ==
    /\ ei' = [ei EXCEPT ![e] = i]
    /\ ej' = [ej EXCEPT ![e] = j]
    /\ IF LoopGoesOn(i, seq)
       THEN /\ eventConn' = seq
            /\ smu' = EvTask(e)
            /\ epc' = [epc EXCEPT ![e] = "loop"]
            /\ UNCHANGED epost
       ELSE /\ eventConn' = Truncated(seq, j)
            /\ smu' = NoTask
            /\ epc' = [epc EXCEPT ![e] = "done"]
            /\ epost' = [epost EXCEPT ![e] = eventConn']

\* Lines 375-379: s.mu.Lock, j := 0, i := 0.
PassBegin(e) ==
    /\ IsServer
    /\ epc[e] = "lock"
    /\ smu = NoTask
    /\ epre' = [epre EXCEPT ![e] = eventConn]
    /\ PassStep(e, 0, 0, eventConn)
    /\ UNCHANGED <<conf, connVars, cmdVars, nev, erej, eatt, eok, cliVars>>

\* Lines 380-382: conn := s.eventConn[i], and WriteText takes conn.mu and
\* starts the write (lines 59-61).
PassWriteBegin(e) ==
    /\ IsServer
    /\ epc[e] = "loop"
    /\ WriteBegin(eventConn[ei[e] + 1], EvTask(e))
    /\ eatt' = [eatt EXCEPT ![e] = Append(@, eventConn[ei[e] + 1])]
    /\ epc' = [epc EXCEPT ![e] = "write"]
    /\ UNCHANGED <<conf, srvVars, nconn, ep, tokOK, hpc, hsOK, closed, broken,
                   wire, cmdVars, nev, erej, ei, ej, epre, eok, epost, cliVars>>

CompactSlot_NoShift(i, j) == i

\* The slot the survivor of index i is stored into (lines 387-391).
CompactSlot(i, j) == j

\* s.eventConn after the iteration for index i whose write succeeded.
Compacted(seq, i, j) ==
    IF i # j THEN [seq EXCEPT ![CompactSlot(i, j) + 1] = seq[i + 1]] ELSE seq

KeptAfter_Always(ok, j) == j + 1

\* j after the iteration: j++ (line 392) is skipped by the continue of line
\* 385.
KeptAfter(ok, j) == IF ok THEN j + 1 ELSE j

GoesOnAfterFailure_Break == FALSE

\* Whether the pass goes on after a failed write (line 385: continue).
GoesOnAfterFailure == TRUE

\* Lines 382-393: WriteText returns.  On an error the connection is closed
\* and skipped; otherwise it is kept at index j.
PassWriteEnd(e, breaks) ==
    /\ IsServer
    /\ epc[e] = "write"
    /\ LET c == eventConn[ei[e] + 1]
           ok == Usable(c) /\ ~breaks
       IN /\ WriteEnd(c, EvTask(e), EventFrame(e), breaks)
          /\ closed' = [closed EXCEPT ![c] = @ \/ ~ok]
          /\ eok' = [eok EXCEPT ![e] = IF ok THEN @ \cup {c} ELSE @]
          /\ IF ok
             THEN PassStep(e, ei[e] + 1, KeptAfter(ok, ej[e]),
                           Compacted(eventConn, ei[e], ej[e]))
             ELSE IF GoesOnAfterFailure
             THEN PassStep(e, ei[e] + 1, KeptAfter(ok, ej[e]), eventConn)
             ELSE PassStep(e, Len(eventConn), KeptAfter(ok, ej[e]), eventConn)
    /\ UNCHANGED <<conf, nconn, ep, tokOK, hpc, hsOK, cmdVars, nev, erej, epre, eatt, cliVars>>

\* ---------------------------------------------------------- reverse client
RetriesDial_Always(interval) == TRUE

\* Line 155: a failed dial is retried when a reconnect interval is set.
RetriesDial(interval) == interval # 0

Shakes_EventOnly(typ) == typ = "Event"

\* Lines 162-163: the roles that write a handshake.
Shakes(typ) == typ \in {"Event", "Universal"}

\* Lines 177-179: conptr is nil for the API role only (lines 129, 134, 137,
\* 212, 234).
HasSlot(typ) == typ \in SlotRoles

\* Line 181: the roles that get a reader task.
Listens(typ) == typ # "Event"

\* connect returns to the task that called it.  runWSClient subscribes the
\* role to the bot's events and goes on with the next role (lines 130-139);
\* the event closure returns and its deferred Unlock runs (line 220); the
\* task started by listenAPI ends.
Return(t, typ) ==
    IF t = MainTask
    THEN /\ mpc' = RoleAfter(typ, conf)
         /\ subscribed' = IF HasSlot(typ) THEN typ ELSE subscribed
         /\ dl' = [dl EXCEPT ![t] =
                IF RoleAfter(typ, conf) = "done" THEN Idle
                ELSE Dialing(RoleAfter(typ, conf))]
         /\ UNCHANGED <<cmu, epc>>
    ELSE IF t[1] = "ev"
    THEN /\ cmu' = NoTask
         /\ epc' = [epc EXCEPT ![t[2]] = "done"]
         /\ dl' = [dl EXCEPT ![t] = Idle]
         /\ UNCHANGED <<mpc, subscribed>>
    ELSE /\ dl' = [dl EXCEPT ![t] = Idle]
         /\ UNCHANGED <<mpc, subscribed, cmu, epc>>

\* websocketClient.connect, lines 143-184: task t dials.  The dial fails, and
\* connect sleeps to dial again or gives up; or it succeeds, the handshake
\* is written (a failure is only logged), the connection is wrapped, stored
\* through conptr and given a reader task.
Dial(t, reached, hsWritten) ==
    /\ IsClient
    /\ dl[t].st = "dial"
    /\ reached => HasBudget
    /\ LET typ == dl[t].typ
           c == nconn + 1
           hs == Shakes(typ) /\ hsWritten
       IN /\ dlast' = [dlast EXCEPT ![typ] = IF reached THEN "ok" ELSE "failed"]
          /\ IF reached
             THEN /\ nconn' = c
                  /\ ep' = [ep EXCEPT ![c] = typ]
                  /\ hsOK' = [hsOK EXCEPT ![c] = hs]
                  /\ wire' = [wire EXCEPT ![c] =
                         IF hs THEN <<HandshakeFrame>> ELSE <<>>]
                  /\ broken' = [broken EXCEPT ![c] = Shakes(typ) /\ ~hsWritten]
                  /\ hpc' = [hpc EXCEPT ![c] = IF Listens(typ) THEN "read" ELSE "open"]
                  /\ slot' = IF HasSlot(typ) THEN [slot EXCEPT ![typ] = c] ELSE slot
                  /\ Return(t, typ)
             ELSE /\ UNCHANGED <<nconn, ep, hsOK, wire, broken, hpc, slot>>
                  /\ IF RetriesDial(conf.interval)
                     THEN /\ dl' = [dl EXCEPT ![t] = Sleeping(typ)]
                          /\ UNCHANGED <<mpc, subscribed, cmu, epc>>
                     ELSE Return(t, typ)
    /\ UNCHANGED <<conf, srvVars, tokOK, closed, wmu, inflight, cmdVars,
                   nev, erej, ei, ej, epre, eatt, eok, epost>>

\* time.Sleep(c.reconnectInterval) returns and connect is called (lines
\* 156-157, 233-234).
Wake(t) ==
    /\ IsClient
    /\ dl[t].st = "sleep"
    /\ dl' = [dl EXCEPT ![t] = Dialing(dl[t].typ)]
    /\ UNCHANGED <<conf, srvVars, connVars, cmdVars, evVars, cmu, slot, mpc,
                   subscribed, dlast>>

\* websocketClient.listenAPI: the read fails and the loop breaks (lines
\* 190-199).  With no reconnect interval the function returns and its
\* deferred Close runs; otherwise it sleeps first (lines 209-210).
ClientReadFail(c) ==
    /\ IsClient
    /\ hpc[c] = "read"
    /\ IF conf.interval # 0
       THEN /\ hpc' = [hpc EXCEPT ![c] = "rsleep"]
            /\ UNCHANGED closed
       ELSE /\ hpc' = [hpc EXCEPT ![c] = "done"]
            /\ closed' = [closed EXCEPT ![c] = TRUE]
    /\ UNCHANGED <<conf, srvVars, nconn, ep, tokOK, hsOK, broken, wmu, inflight,
                   wire, cmdVars, evVars, cliVars>>

ReaderReconnects_Any(typ) == TRUE

\* Line 211: the role whose reader starts a new connect.
ReaderReconnects(typ) == typ = "API"

\* Lines 210-214: the sleep is over; for the API role a task running connect
\* is started; the deferred Close runs.
ReaderWake(c) ==
    /\ IsClient
    /\ hpc[c] = "rsleep"
    /\ dl' = [dl EXCEPT ![RcTask(c)] =
           IF ReaderReconnects(ep[c]) THEN Dialing(ep[c]) ELSE @]
    /\ closed' = [closed EXCEPT ![c] = TRUE]
    /\ hpc' = [hpc EXCEPT ![c] = "done"]
    /\ UNCHANGED <<conf, srvVars, nconn, ep, tokOK, hsOK, broken, wmu, inflight,
                   wire, cmdVars, evVars, cmu, slot, mpc, subscribed, dlast>>

\* ------------------------------------------- websocketClient.onBotPushEvent
\* The bot pushes an event to the closure runWSClient subscribed.
ClientPush ==
    /\ IsClient
    /\ subscribed # "none"
    /\ HasBudget
    /\ nev' = nev + 1
    /\ epc' = [epc EXCEPT ![nev + 1] = "lock"]
    /\ UNCHANGED <<conf, srvVars, connVars, cmdVars, erej, ei, ej, epre, eatt,
                   eok, epost, cliVars>>

AfterFilter_Ignored(rejected, conn) ==
    IF conn = NoConn THEN "panic" ELSE "loop"

\* Where the closure stands after c.mu.Lock and the filter (lines 219-229): a
\* rejected event returns; otherwise *conn is dereferenced by WriteText, and
\* a nil *conn faults in c.mu.Lock (line 59).
AfterFilter(rejected, conn) ==
    IF rejected THEN "filtered"
    ELSE IF conn = NoConn THEN "panic"
    ELSE "loop"

\* Lines 219-226: c.mu.Lock, the filter.  The closure keeps c.mu only when it
\* goes on to write; on a return or a fault the deferred Unlock runs.
ClientPassBegin(e, rejected) ==
    /\ IsClient
    /\ epc[e] = "lock"
    /\ cmu = NoTask
    /\ LET to == AfterFilter(rejected, slot[subscribed])
       IN /\ epc' = [epc EXCEPT ![e] = to]
          /\ erej' = [erej EXCEPT ![e] = rejected]
          /\ cmu' = IF to = "loop" THEN EvTask(e) ELSE NoTask
    /\ UNCHANGED <<conf, srvVars, connVars, cmdVars, nev, ei, ej, epre, eatt,
                   eok, epost, slot, mpc, subscribed, dl, dlast>>

\* Line 229: (*conn).WriteText takes the connection's lock and starts the
\* write.
ClientWriteBegin(e) ==
    /\ IsClient
    /\ epc[e] = "loop"
    /\ WriteBegin(slot[subscribed], EvTask(e))
    /\ eatt' = [eatt EXCEPT ![e] = Append(@, slot[subscribed])]
    /\ epc' = [epc EXCEPT ![e] = "write"]
    /\ UNCHANGED <<conf, srvVars, nconn, ep, tokOK, hpc, hsOK, closed, broken,
                   wire, cmdVars, nev, erej, ei, ej, epre, eok, epost, cliVars>>

HeldDuringReconnect_Released(again, holder) == NoTask

\* The holder of c.mu once the write has returned: the closure keeps the lock
\* through time.Sleep and connect (lines 232-235, deferred Unlock of line
\* 220), or returns and releases it.
HeldDuringReconnect(again, holder) == IF again THEN holder ELSE NoTask

\* Lines 229-236: WriteText returns.  On an error the connection is closed
\* and, with a reconnect interval, the closure sleeps and calls connect,
\* still holding c.mu.
ClientWriteEnd(e, breaks) ==
    /\ IsClient
    /\ epc[e] = "write"
    /\ LET c == slot[subscribed]
           ok == Usable(c) /\ ~breaks
           again == ~ok /\ conf.interval # 0
       IN /\ WriteEnd(c, EvTask(e), EventFrame(e), breaks)
          /\ closed' = [closed EXCEPT ![c] = @ \/ ~ok]
          /\ eok' = [eok EXCEPT ![e] = IF ok THEN @ \cup {c} ELSE @]
          /\ epc' = [epc EXCEPT ![e] = IF again THEN "connect" ELSE "done"]
          /\ cmu' = HeldDuringReconnect(again, cmu)
          /\ dl' = [dl EXCEPT ![EvTask(e)] =
                 IF again THEN Sleeping(subscribed) ELSE @]
    /\ UNCHANGED <<conf, srvVars, nconn, ep, tokOK, hpc, hsOK, cmdVars, nev,
                   erej, ei, ej, epre, eatt, epost, slot, mpc, subscribed, dlast>>

\* -------------------------------------------------------------------- Next
Endpoints == {"event", "api", "any"}

Next ==
    \/ \E x \in Endpoints, a, u, h \in BOOLEAN : Accept(x, a, u, h)
    \/ \E c \in ConnIds : Register(c)
    \/ \E c \in ConnIds, echo \in CmdEchoes : ReadCommand(c, echo)
    \/ \E c \in ConnIds : ServerReadFail(c)
    \/ \E k \in CmdIds, p, r \in BOOLEAN : CallAPI(k, p, r)
    \/ \E l \in Limiters : Refill(l)
    \/ \E k \in CmdIds : ResponseBegin(k)
    \/ \E k \in CmdIds, b \in BOOLEAN : ResponseEnd(k, b)
    \/ \E r \in BOOLEAN : ServerPush(r)
    \/ \E e \in EventIds : PassBegin(e)
    \/ \E e \in EventIds : PassWriteBegin(e)
    \/ \E e \in EventIds, b \in BOOLEAN : PassWriteEnd(e, b)
    \/ \E t \in Dialers, r, h \in BOOLEAN : Dial(t, r, h)
    \/ \E t \in Dialers : Wake(t)
    \/ \E c \in ConnIds : ClientReadFail(c)
    \/ \E c \in ConnIds : ReaderWake(c)
    \/ ClientPush
    \/ \E e \in EventIds, r \in BOOLEAN : ClientPassBegin(e, r)
    \/ \E e \in EventIds : ClientWriteBegin(e)
    \/ \E e \in EventIds, b \in BOOLEAN : ClientWriteEnd(e, b)

Spec == Init /\ [][Next]_vars

\* The reverse client alone, with the one fairness its code gives: a
\* time.Sleep returns (in connect, and in listenAPI before it reconnects).
ClientInit == Init /\ IsClient

ClientNext ==
    \/ \E t \in Dialers, r, h \in BOOLEAN : Dial(t, r, h)
    \/ \E t \in Dialers : Wake(t)
    \/ \E c \in ConnIds : ClientReadFail(c)
    \/ \E c \in ConnIds : ReaderWake(c)
    \/ ClientPush
    \/ \E e \in EventIds, r \in BOOLEAN : ClientPassBegin(e, r)
    \/ \E e \in EventIds : ClientWriteBegin(e)
    \/ \E e \in EventIds, b \in BOOLEAN : ClientWriteEnd(e, b)
    \/ \E c \in ConnIds, echo \in CmdEchoes : ReadCommand(c, echo)
    \/ \E k \in CmdIds, p, r \in BOOLEAN : CallAPI(k, p, r)
    \/ \E l \in Limiters : Refill(l)
    \/ \E k \in CmdIds : ResponseBegin(k)
    \/ \E k \in CmdIds, b \in BOOLEAN : ResponseEnd(k, b)

FairClientSpec ==
    /\ ClientInit
    /\ [][ClientNext]_vars
    /\ \A t \in Dialers : WF_vars(Wake(t))
    /\ \A c \in ConnIds : WF_vars(ReaderWake(c))

\* The forward server alone.  Its tasks are scheduled fairly: a task that can
\* take a step (a lock that is free, a write or a call that returns) takes
\* it; what the peers and the bot send is up to them.
ServerInit == Init /\ IsServer

ServerStep ==
    \/ \E c \in ConnIds : Register(c)
    \/ \E k \in CmdIds, p, r \in BOOLEAN : CallAPI(k, p, r)
    \/ \E l \in Limiters : Refill(l)
    \/ \E k \in CmdIds : ResponseBegin(k)
    \/ \E k \in CmdIds, b \in BOOLEAN : ResponseEnd(k, b)
    \/ \E e \in EventIds : PassBegin(e)
    \/ \E e \in EventIds : PassWriteBegin(e)
    \/ \E e \in EventIds, b \in BOOLEAN : PassWriteEnd(e, b)

ServerNext ==
    \/ \E x \in Endpoints, a, u, h \in BOOLEAN : Accept(x, a, u, h)
    \/ \E c \in ConnIds, echo \in CmdEchoes : ReadCommand(c, echo)
    \/ \E c \in ConnIds : ServerReadFail(c)
    \/ \E r \in BOOLEAN : ServerPush(r)
    \/ ServerStep

FairServerSpec == ServerInit /\ [][ServerNext]_vars /\ WF_vars(ServerStep)

Returned_AtOnce(e) == epc[e] # "free"

\* The call of onBotPushEvent for event e has returned: the event was
\* filtered (lines 225, 372), or the write or the pass and what follows it
\* are over (lines 236, 395).
Returned(e) == epc[e] \in {"filtered", "done"}

\* The gateway with a single event publisher: the bot calls onBotPushEvent
\* for the next event when the call for the one before has returned.
OnePublisher == \A e \in EventIds : epc[e] # "free" => Returned(e)

SeqNext ==
    \/ \E x \in Endpoints, a, u, h \in BOOLEAN : Accept(x, a, u, h)
    \/ \E c \in ConnIds : Register(c)
    \/ \E c \in ConnIds, echo \in CmdEchoes : ReadCommand(c, echo)
    \/ \E c \in ConnIds : ServerReadFail(c)
    \/ \E k \in CmdIds, p, r \in BOOLEAN : CallAPI(k, p, r)
    \/ \E l \in Limiters : Refill(l)
    \/ \E k \in CmdIds : ResponseBegin(k)
    \/ \E k \in CmdIds, b \in BOOLEAN : ResponseEnd(k, b)
    \/ \E r \in BOOLEAN : OnePublisher /\ ServerPush(r)
    \/ \E e \in EventIds : PassBegin(e)
    \/ \E e \in EventIds : PassWriteBegin(e)
    \/ \E e \in EventIds, b \in BOOLEAN : PassWriteEnd(e, b)
    \/ \E t \in Dialers, r, h \in BOOLEAN : Dial(t, r, h)
    \/ \E t \in Dialers : Wake(t)
    \/ \E c \in ConnIds : ClientReadFail(c)
    \/ \E c \in ConnIds : ReaderWake(c)
    \/ OnePublisher /\ ClientPush
    \/ \E e \in EventIds, r \in BOOLEAN : ClientPassBegin(e, r)
    \/ \E e \in EventIds : ClientWriteBegin(e)
    \/ \E e \in EventIds, b \in BOOLEAN : ClientWriteEnd(e, b)

SeqSpec == Init /\ [][SeqNext]_vars

\* The whole gateway with its tasks scheduled fairly.  Progress is made of
\* the steps a task takes once; a task inside connect sleeps and dials as
\* often as its dial fails, so each such task has fairness of its own: its
\* sleep returns and its dial returns, with whatever outcome.
Progress ==
    \/ ServerStep
    \/ \E c \in ConnIds : ReaderWake(c)
    \/ \E e \in EventIds, r \in BOOLEAN : ClientPassBegin(e, r)
    \/ \E e \in EventIds : ClientWriteBegin(e)
    \/ \E e \in EventIds, b \in BOOLEAN : ClientWriteEnd(e, b)

DialReturn(t) == \E r, h \in BOOLEAN : Dial(t, r, h)

FairGatewaySpec ==
    /\ Init
    /\ [][Next]_vars
    /\ WF_vars(Progress)
    /\ \A t \in Dialers : WF_vars(Wake(t)) /\ WF_vars(DialReturn(t))

\* handleRequest on one accepted /api connection, over every echo value.
EchoInit ==
    /\ Init
    /\ IsServer

EchoNext ==
    \/ \E a, u \in BOOLEAN : Accept("api", a, u, TRUE)
    \/ \E c \in ConnIds, echo \in EchoInputs : ReadCommand(c, echo)
    \/ \E c \in ConnIds : ServerReadFail(c)
    \/ \E k \in CmdIds, p, r \in BOOLEAN : CallAPI(k, p, r)
    \/ \E l \in Limiters : Refill(l)
    \/ \E k \in CmdIds : ResponseBegin(k)
    \/ \E k \in CmdIds, b \in BOOLEAN : ResponseEnd(k, b)

EchoSpec == EchoInit /\ [][EchoNext]_vars

\* ------------------------------------------------------------------ claims
Range(seq) == { seq[n] : n \in DOMAIN seq }
Count(seq, x) == Cardinality({ n \in DOMAIN seq : seq[n] = x })
Survivors(e) == LET Kept(c) == c \in eok[e] IN SelectSeq(epre[e], Kept)

\* C1: a finished broadcast pass of the server has attempted exactly one
\* write on every connection that was registered when it took the lock, and
\* on no other, whatever writes failed; the event has reached every
\* connection whose write succeeded exactly once, and no connection twice.
C1_BroadcastOnce ==
    IsServer =>
      \A e \in EventIds :
        /\ epc[e] = "done" =>
             \A c \in ConnIds :
               /\ Count(eatt[e], c) = (IF c \in Range(epre[e]) THEN 1 ELSE 0)
               /\ Count(epre[e], c) <= 1
        /\ \A c \in ConnIds :
             Count(wire[c], EventFrame(e)) = (IF c \in eok[e] THEN 1 ELSE 0)

\* A pass over two subscribers is over: the first write failed, the second
\* was still attempted and succeeded.
C1_Witness ==
    /\ IsServer
    /\ \E e \in EventIds :
         /\ epc[e] = "done"
         /\ Len(epre[e]) = 2
         /\ epre[e][1] \notin eok[e]
         /\ epre[e][2] \in eok[e]
         /\ Count(wire[epre[e][2]], EventFrame(e)) = 1

\* C2: when a broadcast pass releases the lock, the subscriber set is the
\* subsequence of the set at the start of the pass made of the connections
\* whose write succeeded, in their order; the others are closed.
C2_SurvivorsInOrder ==
    IsServer =>
      \A e \in EventIds :
        epc[e] = "done" =>
          /\ epost[e] = Survivors(e)
          /\ \A c \in Range(epre[e]) \ eok[e] : closed[c]

\* A pass over three subscribers whose first write failed and whose two
\* others succeeded: both survivors were moved down.
C2_Witness ==
    /\ IsServer
    /\ \E e \in EventIds :
         /\ epc[e] = "done"
         /\ Len(epre[e]) = 3
         /\ epre[e][1] \notin eok[e]
         /\ {epre[e][2], epre[e][3]} \subseteq eok[e]
         /\ epost[e] = <<epre[e][2], epre[e][3]>>

\* What a step that drops a filtered event leaves alone: everything but the
\* event's own record.
FilterFrame ==
    <<conf, srvVars, connVars, cmdVars, ei, ej, epre, eatt, eok, epost, cliVars>>

\* C3: an event the filter rejects is dropped: no write is ever attempted for
\* it and it reaches no connection, and the step that drops it changes
\* neither the subscriber set nor any connection, role slot, lock or dial.
C3_FilteredNoEffect ==
    /\ [](\A e \in EventIds :
            erej[e] =>
              /\ epc[e] = "filtered"
              /\ eatt[e] = <<>>
              /\ \A c \in ConnIds : Count(wire[c], EventFrame(e)) = 0)
    /\ [][\A e \in EventIds :
            (epc[e] # "filtered" /\ epc'[e] = "filtered") => UNCHANGED FilterFrame]_vars

\* The reverse client dropped an event while its role was connected and the
\* server dropped one while it had a subscriber.
C3_Witness ==
    \E e \in EventIds :
      /\ erej[e]
      /\ epc[e] = "filtered"
      /\ \/ IsClient /\ subscribed # "none" /\ slot[subscribed] # NoConn
         \/ IsServer /\ eventConn # <<>>

\* C4: at most one task is inside a frame write on a connection at a time.
C4_OneWriter == \A c \in ConnIds : Cardinality(inflight[c]) <= 1

\* A response is being written while a second command task and the
\* broadcaster both wait for the same connection.
C4_Witness ==
    \E c \in ConnIds, k1, k2 \in CmdIds, e \in EventIds :
      /\ cpc[k1] = "write" /\ cconn[k1] = c
      /\ cpc[k2] = "lock" /\ cconn[k2] = c
      /\ epc[e] = "loop" /\ IsServer /\ eventConn[ei[e] + 1] = c

\* The step in which the dial of task t returns with the given outcome.
DialReturns(t, outcome) ==
    /\ dl[t].st = "dial"
    /\ dl'[t] # dl[t]
    /\ dlast'[dl[t].typ] = outcome

\* C5: with no reconnect interval a role whose dial failed is never dialed
\* again; with one, a failed dial puts its task to sleep, the sleep is
\* followed by another dial of the same role, and the dial that succeeds
\* leaves the role connected (wrapped, stored in its slot, given its reader)
\* and its task no longer dialing it.
C5_DialRetry ==
    /\ [](conf.interval = 0 =>
            \A r \in Roles :
              dlast[r] = "failed" =>
                \A t \in Dialers : ~(dl[t].typ = r /\ dl[t].st \in {"dial", "sleep"}))
    /\ [][\A t \in Dialers :
            (conf.interval # 0 /\ DialReturns(t, "failed")) =>
              dl'[t] = Sleeping(dl[t].typ)]_vars
    /\ [][\A t \in Dialers :
            dl[t].st = "sleep" => dl'[t] \in {dl[t], Dialing(dl[t].typ)}]_vars
    /\ [](\A t \in Dialers : dl[t].st = "sleep" => <>(dl[t].st = "dial"))
    /\ [][\A t \in Dialers :
            DialReturns(t, "ok") =>
              /\ nconn' = nconn + 1
              /\ ep'[nconn'] = dl[t].typ
              /\ HasSlot(dl[t].typ) => slot'[dl[t].typ] = nconn'
              /\ dl[t].typ # "Event" => hpc'[nconn'] = "read"
              /\ dl'[t] \notin {Dialing(dl[t].typ), Sleeping(dl[t].typ)}]_vars

\* runWSClient sleeps after a failed dial of the API role, with the Event role
\* still to come.
C5_Witness ==
    /\ IsClient
    /\ conf.interval # 0
    /\ dl[MainTask] = Sleeping("API")
    /\ dlast["API"] = "failed"
    /\ conf.event

\* C6: with the Universal URL configured, no role but Universal is ever
\* dialed, connected, stored or subscribed.
C6_UniversalOnly ==
    (IsClient /\ conf.universal) =>
      /\ \A r \in {"API", "Event"} : dlast[r] = "none"
      /\ \A t \in Dialers : dl[t].typ \notin {"API", "Event"}
      /\ \A c \in ConnIds : ep[c] \notin {"API", "Event"}
      /\ slot["Event"] = NoConn
      /\ subscribed \in {"none", "Universal"}

\* All three URLs are configured and the Universal role has been connected
\* a second time after a failed event write.
C6_Witness ==
    /\ IsClient
    /\ conf.universal /\ conf.api /\ conf.event
    /\ \E c \in ConnIds :
         /\ c >= 2
         /\ ep[c] = "Universal"
         /\ slot["Universal"] = c
         /\ closed[1]

\* C7: once the dial of the subscribed role has failed with no reconnect
\* interval, every event pushed returns normally, with no fault and no write
\* attempt.
C7_AbandonedRoleNoFault ==
    (IsClient /\ conf.interval = 0 /\ subscribed # "none"
       /\ dlast[subscribed] = "failed") =>
      \A e \in EventIds :
        /\ epc[e] \in {"free", "lock", "filtered", "done"}
        /\ eatt[e] = <<>>

EventCapable == {"event", "any", "Universal", "Event"}

\* C8: on a connection of an event-capable endpoint or role, the first frame
\* that reaches the peer is the handshake, and it is the only handshake.
C8_HandshakeFirst ==
    \A c \in ConnIds :
      ep[c] \in EventCapable =>
        \A n \in DOMAIN wire[c] : (wire[c][n] = HandshakeFrame) <=> (n = 1)

\* The reverse client reconnected its Universal role, and the new connection
\* carries the handshake and then an event or a response.
C8_Witness ==
    /\ IsClient
    /\ \E c \in ConnIds :
         /\ c >= 2
         /\ ep[c] = "Universal"
         /\ Len(wire[c]) >= 2
         /\ wire[c][1] = HandshakeFrame

\* C9: a connection in the subscriber set passed checkAuth, came in on /event
\* or /, and had its handshake written; a request that failed checkAuth made
\* no connection; a connection whose handshake failed is closed and not
\* registered; an /api connection is not registered and gets no event.
C9_Membership ==
    IsServer =>
      /\ \A c \in Range(eventConn) :
           tokOK[c] /\ ep[c] \in {"event", "any"} /\ hsOK[c]
      /\ \A c \in ConnIds :
           (hpc[c] # "free" /\ ~tokOK[c]) =>
             /\ hpc[c] = "rejected"
             /\ ep[c] = "none"
             /\ wire[c] = <<>>
             /\ c \notin Range(eventConn)
      /\ \A c \in ConnIds :
           (ep[c] \in {"event", "any"} /\ ~hsOK[c]) =>
             /\ closed[c]
             /\ hpc[c] = "done"
             /\ c \notin Range(eventConn)
      /\ \A c \in ConnIds :
           ep[c] = "api" =>
             /\ c \notin Range(eventConn)
             /\ \A e \in EventIds :
                  /\ c \notin Range(eatt[e])
                  /\ Count(wire[c], EventFrame(e)) = 0

\* A request was rejected, an /api connection is being read, and a
\* registered connection has received an event.
C9_Witness ==
    /\ IsServer
    /\ \E c1, c2, c3 \in ConnIds, e \in EventIds :
         /\ hpc[c1] = "rejected"
         /\ ep[c2] = "api" /\ hpc[c2] = "read"
         /\ c3 \in Range(eventConn)
         /\ epc[e] = "done" /\ c3 \in eok[e]

\* C10: a response that reaches the peer carries the echo of its command
\* unchanged, and none when the command had none.
C10_EchoVerbatim ==
    \A c \in ConnIds :
      \A n \in DOMAIN wire[c] :
        wire[c][n][1] = "response" => wire[c][n][3] = cecho[wire[c][n][2]]

\* The first command read on the connections that share k's limiter.
FirstOnLimiter(k) ==
    \A k0 \in CmdIds :
      k0 < k => LimiterOf(cconn[k0]) # LimiterOf(cconn[k])

\* C11: with rate limiting enabled and a bucket of one token, of two
\* commands read from one connection in the order k1, k2, where k1 is the
\* first to meet the limiter, k2 is never dispatched to the bot API while k1
\* has not been, and k1 is never refused by the limiter.
C11_LimiterOrder ==
    conf.limit =>
      \A k1, k2 \in CmdIds :
        (k1 < k2 /\ k2 <= ncmd /\ cconn[k1] = cconn[k2] /\ FirstOnLimiter(k1)) =>
          /\ cdisp[k2] = "called" => cdisp[k1] = "called"
          /\ cdisp[k1] # "rejected"

\* C12 as stated: a registered connection that has been closed (its reader
\* failed, a handler faulted, an event write failed) is eventually removed
\* from the subscriber set.
C12_EventuallyRemoved ==
    [](\A c \in ConnIds :
         (closed[c] /\ c \in Range(eventConn)) => <>(c \notin Range(eventConn)))

\* C12, amended: a registered connection that has been closed is removed
\* from the subscriber set once an event that the filter lets through is
\* waiting to be broadcast; the removal is done by a broadcast pass, whose
\* write on the connection fails.
C12_RemovedByPass ==
    [](\A c \in ConnIds :
         (closed[c] /\ c \in Range(eventConn) /\ \E e \in EventIds : epc[e] = "lock")
           => <>(c \notin Range(eventConn)))

\* The reader of a / connection failed and closed it, and a pass that found
\* it in the subscriber set has removed it.
C12_Witness ==
    /\ IsServer
    /\ \E c \in ConnIds, e \in EventIds :
         /\ ep[c] = "any" /\ hpc[c] = "done" /\ closed[c] /\ broken[c]
         /\ epc[e] = "done"
         /\ c \in Range(epre[e])
         /\ c \notin Range(eventConn)

\* C13: once Close has been called on a connection, no task starts an event
\* write or a response write on it any more.
C13_NoUseAfterClose ==
    [][\A c \in ConnIds : closed[c] => inflight'[c] \subseteq inflight[c]]_vars

\* The step in which the task of command k faults and its recover runs:
\* Call panics, or the response is encoded to a nil writer.
Faults(k) ==
    /\ cpc'[k] = "done"
    /\ \/ cpc[k] = "call"
       \/ cpc[k] = "write" /\ NilWriter(cconn[k])

\* What a connection is to the other tasks.
ConnState(c) == <<ep[c], hsOK[c], closed[c], broken[c], wmu[c], inflight[c], wire[c]>>

\* C14: a fault of the task of a command read from connection A closes A and
\* no other connection: every other connection, every reader task, every
\* other command task, every broadcast pass, the subscriber set and the
\* client's roles are left as they were, and A's write lock is not left held.
C14_FaultIsolated ==
    [][\A k \in CmdIds :
         Faults(k) =>
           /\ closed'[cconn[k]]
           /\ wmu'[cconn[k]] # CmdTask(k)
           /\ \A c \in ConnIds \ {cconn[k]} : ConnState(c)' = ConnState(c)
           /\ \A k2 \in CmdIds \ {k} : cpc'[k2] = cpc[k2]
           /\ UNCHANGED <<conf, srvVars, evVars, cliVars, hpc, nconn, ncmd, cconn>>]_vars

\* The task of a command read from a / connection has faulted in Call while
\* the connection's reader was still reading; a second connection is open
\* and read from, and a broadcast pass is under way.
C14_Witness ==
    /\ IsServer
    /\ \E k \in CmdIds, c2 \in ConnIds, e \in EventIds :
         /\ cpc[k] = "done" /\ cdisp[k] = "called"
         /\ closed[cconn[k]] /\ ~broken[cconn[k]] /\ hpc[cconn[k]] = "read"
         /\ c2 # cconn[k] /\ Usable(c2) /\ hpc[c2] = "read"
         /\ epc[e] \in {"loop", "write"}

\* The tasks that are inside connect for a role (dialing, or sleeping before
\* the next dial).
Connecting(typ) == { t \in Dialers : dl[t].typ = typ /\ dl[t].st \in {"dial", "sleep"} }

\* C15: with a reconnect interval, the reader of an API connection whose read
\* failed sleeps and then starts a task that dials the API role again; the
\* reader of a Universal connection never starts a dial; the Universal role
\* is dialed only by runWSClient at the start and by an event closure that
\* holds the client lock after its write failed, so that at most one task is
\* connecting the Universal role at any time.
C15_ReaderReconnect ==
    /\ [](\A c \in ConnIds :
            (hpc[c] = "rsleep" /\ ep[c] = "API") => <>(dl[RcTask(c)] = Dialing("API")))
    /\ [][\A c \in ConnIds :
            (hpc[c] = "rsleep" /\ hpc'[c] # "rsleep") =>
              IF ep[c] = "API" THEN dl'[RcTask(c)] = Dialing("API")
              ELSE dl' = dl]_vars
    /\ [](\A c \in ConnIds : ep[c] # "API" => dl[RcTask(c)] = Idle)
    /\ [](\A t \in Connecting("Universal") :
            \/ t = MainTask /\ subscribed = "none"
            \/ \E e \in EventIds : t = EvTask(e) /\ epc[e] = "connect" /\ cmu = t)
    /\ [](Cardinality(Connecting("Universal")) <= 1)

\* The reader of the first API connection failed, slept and started a dial
\* that connected the API role again.
C15_Witness ==
    /\ IsClient
    /\ conf.interval # 0
    /\ \E c, c2 \in ConnIds :
         /\ c < c2
         /\ ep[c] = "API" /\ hpc[c] = "done" /\ closed[c]
         /\ ep[c2] = "API" /\ hpc[c2] = "read"
         /\ dl[RcTask(c)] = Idle

\* C16: while a task waits out the reconnect delay of a role, no event
\* producer is kept waiting for the client lock, and every other configured
\* role has been dialed or is being dialed.
C16_DelaySuspendsOwnTask ==
    \A t \in Dialers :
      dl[t].st = "sleep" =>
        /\ \A e \in EventIds : epc[e] = "lock" => cmu = NoTask
        /\ \A r \in ConfiguredRoles(conf) \ {dl[t].typ} :
             dlast[r] # "none" \/ Connecting(r) # {}

\* C17: a role's connection pointer is first set by runWSClient, before the
\* role's closure is subscribed, and from then on replaced only by the event
\* closure that holds the client lock; no event write through the pointer is
\* under way while a task is connecting that role or when the pointer
\* changes; and when the closure returns from its reconnection the pointer
\* refers to the connection just dialed, which is not closed, and no longer
\* to the one that was closed.
C17_SwapUnderLock ==
    /\ [][\A r \in SlotRoles :
            slot'[r] # slot[r] =>
              /\ \/ /\ slot[r] = NoConn
                    /\ subscribed = "none"
                    /\ dl[MainTask] = Dialing(r)
                 \/ \E e \in EventIds :
                      /\ cmu = EvTask(e)
                      /\ dl[EvTask(e)] = Dialing(r)
                      /\ closed[slot[r]]
              /\ \A e \in EventIds : epc[e] = "write" => epc'[e] = "write"
              /\ slot'[r] = nconn' /\ nconn' = nconn + 1
              /\ ~closed'[slot'[r]]]_vars
    /\ [](IsClient =>
            \A e \in EventIds :
              epc[e] \in {"loop", "write"} =>
                /\ cmu = EvTask(e)
                /\ Connecting(subscribed) = {})

\* An event closure has closed the role's connection after a failed write and
\* connected the role again, and a later event is being written through the
\* new pointer.
C17_Witness ==
    /\ IsClient
    /\ \E e, e2 \in EventIds :
         /\ epc[e] = "done"
         /\ eatt[e] # <<>>
         /\ closed[eatt[e][1]]
         /\ slot[subscribed] # eatt[e][1]
         /\ epc[e2] = "write"
         /\ eatt[e2] = <<slot[subscribed]>>

\* The places of a frame among the frames that reached the peer of c.
Places(c, frame) == { n \in DOMAIN wire[c] : wire[c][n] = frame }

\* C18: with one publisher, which publishes e1 and then e2, every connection
\* that both events reach gets e1 before e2, whatever responses are written
\* on it in between.
C18_EventOrder ==
    \A c \in ConnIds : \A e1, e2 \in EventIds :
      e1 < e2 =>
        \A n1 \in Places(c, EventFrame(e1)) : \A n2 \in Places(c, EventFrame(e2)) :
          n1 < n2

\* A connection has received an event, then a response, then the next event.
C18_Witness ==
    \E c \in ConnIds : \E e1, e2 \in EventIds : \E k \in CmdIds :
      /\ e1 < e2
      /\ Len(wire[c]) >= 4
      /\ wire[c][2] = EventFrame(e1)
      /\ wire[c][3][1] = "response" /\ wire[c][3][2] = k
      /\ wire[c][4] = EventFrame(e2)

\* The handler of c has appended it to the subscriber set.
Registered(c) ==
    /\ ep[c] \in {"event", "any"}
    /\ hsOK[c]
    /\ hpc[c] \in {"read", "done"}

\* An event write on c has returned with an error.
EventWriteFailed(c) ==
    \E e \in EventIds :
      /\ c \in Range(eatt[e])
      /\ c \notin eok[e]
      /\ ~(epc[e] = "write" /\ eatt[e][Len(eatt[e])] = c)

\* C19: a connection whose handler has registered it is in the subscriber
\* set, at any time and whatever broadcast passes ran or run meanwhile,
\* unless an event write on that connection failed; and it is there once.
C19_RegistrationKept ==
    IsServer =>
      \A c \in ConnIds :
        (Registered(c) /\ ~EventWriteFailed(c)) =>
          /\ c \in Range(eventConn)
          /\ smu = NoTask => Count(eventConn, c) = 1

\* Connection c was accepted before connection d and registered after it: its
\* handler stood at s.mu.Lock during the whole of a pass that started with d
\* registered, failed to write to d and compacted it away; c is registered.
C19_Witness ==
    /\ IsServer
    /\ \E c, d \in ConnIds, e \in EventIds :
         /\ c < d
         /\ epc[e] = "done"
         /\ d \in Range(epre[e]) /\ d \notin eok[e]
         /\ c \notin Range(epre[e])
         /\ Registered(c)
         /\ c \in Range(eventConn)

\* The lock a broadcaster takes before any connection's write lock.
OuterLock == IF IsServer THEN smu ELSE cmu

\* The tasks that hold a lock.
Holders == ({wmu[c] : c \in ConnIds} \cup {smu, cmu}) \ {NoTask}

\* A step of task t while it holds a lock.
HolderStep(t) ==
    \/ \E k \in CmdIds, b \in BOOLEAN : t = CmdTask(k) /\ ResponseEnd(k, b)
    \/ \E e \in EventIds :
         /\ t = EvTask(e)
         /\ \/ PassWriteBegin(e)
            \/ \E b \in BOOLEAN : PassWriteEnd(e, b)
            \/ ClientWriteBegin(e)
            \/ \E b \in BOOLEAN : ClientWriteEnd(e, b)
            \/ Wake(t)
            \/ DialReturn(t)

\* A connection's write lock is held by a command task of that connection
\* that is writing its response and holds nothing else, or by a broadcaster
\* that is writing and took the subscriber-set lock (the client lock) first;
\* those two locks are held by broadcasters only.
LockOrder ==
    /\ \A c \in ConnIds :
         wmu[c] # NoTask =>
           \/ \E k \in CmdIds :
                wmu[c] = CmdTask(k) /\ cpc[k] = "write" /\ cconn[k] = c
           \/ \E e \in EventIds :
                wmu[c] = EvTask(e) /\ epc[e] = "write" /\ OuterLock = EvTask(e)
    /\ \A t \in {smu, cmu} \ {NoTask} :
         \E e \in EventIds : t = EvTask(e) /\ epc[e] \in {"loop", "write", "connect"}
    /\ \A c1, c2 \in ConnIds : (c1 # c2 /\ wmu[c1] # NoTask) => wmu[c1] # wmu[c2]

\* When locks are held, one of the tasks holding one can take a step.
HolderCanProceed == Holders # {} => \E t \in Holders : ENABLED HolderStep(t)

====
